---------------------------- MODULE Spec2Model ----------------------------
(***************************************************************************)
(* Two Telegram bots of the repository, each its own process:              *)
(*   new_script.py    - the menu bot with the SQLite record store (Spec;   *)
(*                      SpecFaults with failing collaborators; SpecRender  *)
(*                      with a note of an earlier rendering)               *)
(*   chil_life_bot.py - the mindfulness quiz bot (SpecQuiz)                *)
(* A callback token such as "meditation_progress" is written as the tuple  *)
(* of its "_"-separated words, <<"meditation", "progress">>, so that       *)
(* str.split("_") is indexing and re.match is a prefix test.               *)
(* context.user_data (a Python dict) is a function whose DOMAIN is the set *)
(* of keys present.  The users table is assumed to exist (create_db is     *)
(* defined but never called by main).                                      *)
(***************************************************************************)
EXTENDS Integers, Sequences, FiniteSets, TLC

VARIABLES
    db,         \* bot_data.db, table users: user_id -> row (only ids that have a row)
    user_data,  \* context.user_data of each user (transient, per process)
    event,      \* the update handled last
    replies,    \* the messages sent while handling it, in order
    saves,      \* calls of save_user_data made while handling it
    gens,       \* calls of the text generator made while handling it
    failures,   \* the collaborators that raised while handling it
    run,        \* quiz bookkeeping: answers pressed since the last start_test
    arg,        \* argument of a function applied on its own
    ret,        \* its result: <<>> before the call, <<value>> after
    tasks       \* handler coroutines of updates handled concurrently

vars == <<db, user_data, event, replies, saves, gens, failures, run, arg, ret, tasks>>

---------------------------------------------------------------------------
(* Bounds of the model *)

\* entries one process keeps per user in context.user_data["journal"]
MaxJournal == 2

\* the user whose updates this process handles, and a user of an earlier
\* run of the process whose row is in the database file.  Handlers reach
\* only context.user_data of the sender and the sender's row.
Users == {1}
StoredUsers == {2}
StoredUser == CHOOSE u \in StoredUsers : TRUE
Texts == {"a", "b"}

None == "None"          \* Python None / SQL NULL
NoEvent == [type |-> "none", user |-> 0, data |-> <<>>]

---------------------------------------------------------------------------
(* Python dicts *)

EmptyDict == [k \in {} |-> None]

Get(d, k, default) == IF k \in DOMAIN d THEN d[k] ELSE default

Put(d, k, v) == [x \in (DOMAIN d) \cup {k} |-> IF x = k THEN v ELSE d[x]]

\* dict.get(k) used as a condition: a missing key gives None, which is falsy
Truthy(d, k) == k \in DOMAIN d /\ d[k] = TRUE

---------------------------------------------------------------------------
(* json.dumps / json.loads on the values the bot stores.  A JSON text is   *)
(* the sequence of its lexical tokens.                                     *)

RECURSIVE JsonDumpsEntries(_)
JsonDumpsEntries(list) ==
    IF list = <<>> THEN <<>>
    ELSE <<"{", "timestamp", list[1].timestamp, "entry", list[1].entry, "}">>
         \o JsonDumpsEntries(Tail(list))

\* json.dumps of a list of {"timestamp": .., "entry": ..} dicts
JsonDumpsList(list) == <<"[">> \o JsonDumpsEntries(list) \o <<"]">>

RECURSIVE JsonDumpsMembers(_, _)
JsonDumpsMembers(obj, keys) ==
    IF keys = {} THEN <<>>
    ELSE LET k == CHOOSE x \in keys : TRUE
         IN  <<k, obj[k]>> \o JsonDumpsMembers(obj, keys \ {k})

\* json.dumps of a dict of scalars
JsonDumpsObject(obj) == <<"{">> \o JsonDumpsMembers(obj, DOMAIN obj) \o <<"}">>

RECURSIVE JsonLoadsEntries(_, _)
JsonLoadsEntries(text, i) ==
    IF text[i] = "]" THEN <<>>
    ELSE <<[timestamp |-> text[i + 2], entry |-> text[i + 4]]>>
         \o JsonLoadsEntries(text, i + 6)

JsonLoadsList(text) == JsonLoadsEntries(text, 2)

\* json.loads of an object text: members are at positions 2, 4, ..
JsonLoadsObject(text) ==
    LET at == {i \in 2..(Len(text) - 1) : i % 2 = 0}
    IN  [k \in {text[i] : i \in at} |->
            text[(CHOOSE i \in at : text[i] = k) + 1]]

---------------------------------------------------------------------------
(* The record store *)

\* new_script.py save_user_data: REPLACE INTO users, one row per user_id;
\* language, journal and self_assessment are the only columns
save_user_data(store, user_id, data) ==
    Put(store, user_id,
        [language        |-> Get(data, "language", None),
         journal         |-> JsonDumpsList(Get(data, "journal", <<>>)),
         self_assessment |-> JsonDumpsObject(Get(data, "self_assessment", EmptyDict))])

DefaultUserData ==
    [language |-> "uk", journal |-> <<>>, self_assessment |-> EmptyDict]

\* new_script.py load_user_data
load_user_data(store, user_id) ==
    IF user_id \in DOMAIN store
    THEN [language        |-> store[user_id].language,
          journal         |-> JsonLoadsList(store[user_id].journal),
          self_assessment |-> IF store[user_id].self_assessment # None
                              THEN JsonLoadsObject(store[user_id].self_assessment)
                              ELSE EmptyDict]
    ELSE DefaultUserData

---------------------------------------------------------------------------
(* datetime.now().strftime(..) of save_journal_entry: the month and minute *)
(* directives of its format are written with the Cyrillic letters em, not  *)
(* the Latin m and M, so the C library copies them through and only        *)
(* %Y %d %H %S are formatted ("2026-%<em>-01 23:%<EM>:59").                *)

NowValues == {[Y |-> 2024, m |-> 1, d |-> 1, H |-> 0, M |-> mi, S |-> 0] : mi \in {0, 1}}

Strftime(now) == <<now.Y, "-%<em>-", now.d, " ", now.H, ":%<EM>:", now.S>>

\* the clock reading given to handlers that do not read the clock
AnyNow == CHOOSE t \in NowValues : TRUE

---------------------------------------------------------------------------
(* Updates, replies and the effect of one handler call *)

Command(u, name)   == [type |-> "command",  user |-> u, data |-> <<name>>]
Callback(u, token) == [type |-> "callback", user |-> u, data |-> token]
Message(u, text)   == [type |-> "message",  user |-> u, data |-> <<text>>]

B(label, token) == [label |-> label, callback_data |-> token]

\* a message with a fixed text, and one whose text carries a listing
Reply(text, keyboard) == [text |-> <<text>>, keyboard |-> keyboard]
ReplyWith(text, listing) == [text |-> <<text, listing>>, keyboard |-> <<>>]

\* what a handler call is given: the store, the user's context.user_data,
\* the update, the clock, whether the text generator will succeed and
\* whether a write to bot_data.db will
Ctx(store, data, update, now, genOk, saveOk) ==
    [store |-> store, data |-> data, update |-> update, now |-> now,
     genOk |-> genOk, saveOk |-> saveOk]

\* what it leaves behind
Effect(store, data, sent, nsaves, ngens) ==
    [store |-> store, data |-> data, replies |-> sent, saves |-> nsaves, gens |-> ngens]

\* a handler that returns, or raises, before doing anything
NoEffect(c) == Effect(c.store, c.data, <<>>, 0, 0)

---------------------------------------------------------------------------
(* new_script.py: the handlers *)

LanguageKeyboard ==
    << B("Ukrainska", <<"set", "language", "uk">>),
       B("Russkiy",   <<"set", "language", "ru">>),
       B("English",   <<"set", "language", "en">>) >>

\* new_script.py start
start(c) ==
    Effect(c.store, c.data, <<Reply("Dobro pozhalovat", LanguageKeyboard)>>, 0, 0)

MenuTargets ==
    << <<"mindfulness", "path">>, <<"meditation">>, <<"get", "motivation">>,
       <<"start", "journal">>, <<"productivity", "checklist">>, <<"mini", "games">>,
       <<"rituals">>, <<"share", "mood">>, <<"improve", "mood">>,
       <<"personal", "profile">>, <<"daily", "challenges">>, <<"community">>,
       <<"start">> >>

MenuLabels ==
    [uk |-> << "Shlyakh do osoznanosti", "Medytatyvna harmoniya", "Iskra motyvatsii",
               "Shchodennyk dumok", "Chek-lyst produktyvnosti", "Rozvazhalni ihry",
               "Denni ta nichni rytualy", "Podilytysya nastroyem",
               "Porady shchodo pokrashchennya nastroyu", "Osobystyi profil",
               "Shchodenni vyklyky", "Spilnota", "Zminyty movu" >>,
     ru |-> << "Put k osoznannosti", "Meditativnaya garmoniya", "Iskra motivatsii",
               "Dnevnik mysley", "Chek-list produktivnosti", "Razvlekatelnye igry",
               "Dnevnye i nochnye ritualy", "Podelitsya nastroeniem",
               "Sovety po uluchsheniyu nastroeniya", "Lichnyi profil",
               "Ezhednevnye vyzovy", "Soobshchestvo", "Izmenit yazyk" >>,
     en |-> << "Path to Mindfulness", "Meditative Harmony", "Spark of Motivation",
               "Thought Diary", "Productivity Checklist", "Entertaining Games",
               "Daily and Nightly Rituals", "Share Your Mood", "Tips to Improve Mood",
               "Personal Profile", "Daily Challenges", "Community", "Change Language" >>]

\* the keyboard menu builds: uk, ru, and English for anything else
MenuKeyboard(language) ==
    LET labels == IF language = "uk" THEN MenuLabels.uk
                  ELSE IF language = "ru" THEN MenuLabels.ru
                  ELSE MenuLabels.en
    IN  [i \in 1..Len(MenuTargets) |-> B(labels[i], MenuTargets[i])]

\* menu writing the record it loaded back to the store
menu_saves_record(c) ==
    IF c.update.type # "callback" THEN NoEffect(c)
    ELSE LET data == load_user_data(c.store, c.update.user)
         IN  Effect(save_user_data(c.store, c.update.user, data), c.data,
                    <<Reply("Glavnoe menyu / Main menu:", MenuKeyboard(data.language))>>,
                    1, 0)

\* new_script.py menu (the definition in force, line 208): it reads
\* update.callback_query.from_user.id first, which raises for a command
\* update, whose callback_query is None
menu(c) ==
    IF c.update.type # "callback" THEN NoEffect(c)
    ELSE LET data == load_user_data(c.store, c.update.user)
             language == data.language
         IN  Effect(c.store, c.data,
                    <<Reply("Glavnoe menyu / Main menu:", MenuKeyboard(language))>>, 0, 0)

LanguageSelected ==
    [uk |-> "Movu vybrano: Ukrainska", ru |-> "Yazyk vybran: Russkiy",
     en |-> "Language selected: English"]

\* set_language saving a fresh record with the language, not the loaded one
set_language_fresh_record(c, language) ==
    LET user_id == c.update.user
        data    == [DefaultUserData EXCEPT !.language = language]
        store1  == save_user_data(c.store, user_id, data)
        shown   == menu([c EXCEPT !.store = store1])
    IN  IF ~c.saveOk THEN Effect(c.store, c.data, <<>>, 1, 0)
        ELSE Effect(store1, c.data,
                    <<Reply(LanguageSelected[language], <<>>)>> \o shown.replies,
                    1 + shown.saves, shown.gens)

\* new_script.py set_language_uk / set_language_ru / set_language_en:
\* save_user_data has no try, so a write that fails raises sqlite3.Error
\* out of the handler before the first reply_text
set_language(c, language) ==
    LET user_id == c.update.user
        data    == [load_user_data(c.store, user_id) EXCEPT !.language = language]
        store1  == save_user_data(c.store, user_id, data)
        shown   == menu([c EXCEPT !.store = store1])
    IN  IF ~c.saveOk THEN Effect(c.store, c.data, <<>>, 1, 0)
        ELSE Effect(store1, c.data,
                    <<Reply(LanguageSelected[language], <<>>)>> \o shown.replies,
                    1 + shown.saves, shown.gens)

set_language_uk(c) == set_language(c, "uk")
set_language_ru(c) == set_language(c, "ru")
set_language_en(c) == set_language(c, "en")

MainMenuButton == B("Glavnoe menyu", <<"main", "menu">>)

\* a handler that only sends a fixed title with a fixed keyboard
Screen(c, title, keyboard) ==
    Effect(c.store, c.data, <<Reply(title, keyboard)>>, 0, 0)

\* new_script.py mindfulness_path
mindfulness_path(c) ==
    Screen(c, "Put k Osoznannosti:",
           << B("Otsenka Vnutrennego Mira", <<"self", "assessment">>),
              B("Moi Rezultaty", <<"my", "results">>),
              B("Sovety po Osoznannosti", <<"mindfulness", "tips">>),
              MainMenuButton >>)

\* start_journal leaving out the new-entry button while an entry is awaited
start_journal_hides_new_entry(c) ==
    Screen(c, "Dnevnik Mysley:",
           IF Truthy(c.data, "awaiting_journal")
           THEN << B("Prosmotr Zapisey", <<"view", "entries">>), MainMenuButton >>
           ELSE << B("Novaya Zapis", <<"new", "entry">>),
                   B("Prosmotr Zapisey", <<"view", "entries">>),
                   MainMenuButton >>)

\* new_script.py start_journal
start_journal(c) ==
    Screen(c, "Dnevnik Mysley:",
           << B("Novaya Zapis", <<"new", "entry">>),
              B("Prosmotr Zapisey", <<"view", "entries">>),
              MainMenuButton >>)

\* new_script.py new_entry
new_entry(c) ==
    Effect(c.store, Put(c.data, "awaiting_journal", TRUE),
           <<Reply("Napishite, chto vas volnuet", <<>>)>>, 0, 0)

\* save_journal_entry without the line that clears the flag
save_journal_entry_keeps_flag(c) ==
    IF Truthy(c.data, "awaiting_journal")
    THEN LET journal == Append(Get(c.data, "journal", <<>>),
                               [timestamp |-> Strftime(c.now), entry |-> c.update.data[1]])
             data1   == Put(c.data, "journal", journal)
         IN  Effect(save_user_data(c.store, c.update.user, data1), data1,
                    <<Reply("Vashi mysli sokhraneny!", <<>>)>>, 1, 0)
    ELSE NoEffect(c)

\* save_journal_entry without the test of the flag
save_journal_entry_unguarded(c) ==
    LET journal == Append(Get(c.data, "journal", <<>>),
                          [timestamp |-> Strftime(c.now), entry |-> c.update.data[1]])
        data1   == Put(Put(c.data, "journal", journal), "awaiting_journal", FALSE)
    IN  Effect(save_user_data(c.store, c.update.user, data1), data1,
               <<Reply("Vashi mysli sokhraneny!", <<>>)>>, 1, 0)

\* save_journal_entry with the confirmation sent before the record is saved
save_journal_entry_confirms_first(c) ==
    IF Truthy(c.data, "awaiting_journal")
    THEN LET journal == Append(Get(c.data, "journal", <<>>),
                               [timestamp |-> Strftime(c.now), entry |-> c.update.data[1]])
             data1   == Put(Put(c.data, "journal", journal), "awaiting_journal", FALSE)
         IN  Effect(IF c.saveOk THEN save_user_data(c.store, c.update.user, data1)
                    ELSE c.store,
                    data1, <<Reply("Vashi mysli sokhraneny!", <<>>)>>, 1, 0)
    ELSE NoEffect(c)

\* new_script.py save_journal_entry (the definition in force, line 475):
\* context.user_data is changed in place before save_user_data is called,
\* and the confirmation is sent after it returned
save_journal_entry(c) ==
    IF Truthy(c.data, "awaiting_journal")
    THEN LET entry     == c.update.data[1]
             timestamp == Strftime(c.now)
             journal   == Append(Get(c.data, "journal", <<>>),
                                 [timestamp |-> timestamp, entry |-> entry])
             data1     == Put(Put(c.data, "journal", journal), "awaiting_journal", FALSE)
         IN  IF ~c.saveOk THEN Effect(c.store, data1, <<>>, 1, 0)
             ELSE Effect(save_user_data(c.store, c.update.user, data1), data1,
                         <<Reply("Vashi mysli sokhraneny!", <<>>)>>, 1, 0)
    ELSE NoEffect(c)

\* new_script.py view_entries
view_entries(c) ==
    LET journal_entries == load_user_data(c.store, c.update.user).journal
    IN  IF journal_entries # <<>>
        THEN Effect(c.store, c.data, <<ReplyWith("Vashi zapisi:", journal_entries)>>, 0, 0)
        ELSE Effect(c.store, c.data, <<Reply("Net zapisey dlya otobrazheniya.", <<>>)>>, 0, 0)

\* new_script.py productivity_checklist
productivity_checklist(c) ==
    Screen(c, "Chek-list Produktivnosti:",
           << B("Sozdat Novyi Chek-list", <<"create", "checklist">>),
              B("Moi Chek-listy", <<"my", "checklists">>),
              MainMenuButton >>)

\* new_script.py create_checklist
create_checklist(c) ==
    Effect(c.store, Put(c.data, "awaiting_checklist", TRUE),
           <<Reply("Sozdayte novyi chek-list", <<>>)>>, 0, 0)

\* new_script.py my_checklists: load_user_data returns no "checklists" key
my_checklists(c) ==
    LET checklists == Get(load_user_data(c.store, c.update.user), "checklists", <<>>)
    IN  IF checklists # <<>>
        THEN Effect(c.store, c.data, <<ReplyWith("Vashi chek-listy:", checklists)>>, 0, 0)
        ELSE Effect(c.store, c.data, <<Reply("Net chek-listov dlya otobrazheniya.", <<>>)>>, 0, 0)

\* new_script.py save_checklist_entry
save_checklist_entry(c) ==
    IF Truthy(c.data, "awaiting_checklist")
    THEN LET checklist == c.update.data[1]
             data1 == Put(Put(c.data, "checklists",
                              Append(Get(c.data, "checklists", <<>>), checklist)),
                          "awaiting_checklist", FALSE)
         IN  IF ~c.saveOk THEN Effect(c.store, data1, <<>>, 1, 0)
             ELSE Effect(save_user_data(c.store, c.update.user, data1), data1,
                         <<Reply("Chek-list sokhranen!", <<>>)>>, 1, 0)
    ELSE NoEffect(c)

---------------------------------------------------------------------------
(* new_script.py: the text generator and the handlers that call it *)

GenerationError == "Oshibka pri generatsii teksta."

\* new_script.py generate_text: the pipeline's output for the prompt, and the
\* fixed string when the pipeline raises
generate_text(prompt, genOk) ==
    IF genOk THEN <<"generated", prompt>> ELSE <<GenerationError>>

\* a handler that calls generate_text once and replies once with the result
\* after a fixed prefix
Generative(c, prompt, prefix) ==
    LET generated_text == generate_text(prompt, c.genOk)
    IN  Effect(c.store, c.data, <<ReplyWith(prefix, generated_text)>>, 0, 1)

\* new_script.py get_motivation (the definition in force, line 410)
get_motivation(c) ==
    Screen(c, "Iskra Motivatsii:",
           << B("Motiviruyushchie Tsitaty", <<"motivational", "quotes">>),
              B("Vdokhnovlyayushchaya Muzyka", <<"inspiring", "music">>),
              B("Vdokhnovlyayushchie Video", <<"inspiring", "videos">>),
              MainMenuButton >>)

\* new_script.py motivational_quotes (line 429)
motivational_quotes(c) ==
    Generative(c, "Generate a motivational quote.", "Motiviruyushchaya tsitata:")

\* new_script.py personalized_sessions: load_user_data returns no
\* "meditation_preferences" key, so preferences is the default
personalized_sessions(c) ==
    LET user_data0  == load_user_data(c.store, c.update.user)
        preferences == Get(user_data0, "meditation_preferences", "obshchie")
        prompt == IF preferences = "vysokiy uroven stressa"
                  THEN "Guide through a meditation session for high stress levels."
                  ELSE "Guide through a general meditation session."
    IN  Generative(c, prompt, "Personalizirovannaya meditatsiya:")

\* new_script.py mini_games (line 1167)
mini_games(c) ==
    Screen(c, "Razvlekatelnye Igry:",
           << B("Naydi Razlichiya", <<"game", "find", "differences">>),
              B("Vnimatelnaya Igra", <<"game", "attention">>),
              B("Viktorina", <<"game", "quiz">>),
              MainMenuButton >>)

\* new_script.py game_quiz (line 1210)
game_quiz(c) == Generative(c, "Generate a quiz question.", "Vopros viktoriny:")

\* new_script.py rituals (line 1224)
rituals(c) ==
    Screen(c, "Dnevnye i Nochnye Ritualy:",
           << B("Utrennie Ritualy", <<"morning", "rituals">>),
              B("Vechernie Ritualy", <<"evening", "rituals">>),
              MainMenuButton >>)

\* new_script.py morning_rituals (line 1242)
morning_rituals(c) ==
    Screen(c, "Utrennie Ritualy:",
           << B("Uprazhneniya", <<"morning", "exercises">>),
              B("Meditatsiya", <<"morning", "meditation">>),
              B("Zavtrak", <<"breakfast">>),
              B("Dnevnye i Nochnye Ritualy", <<"rituals">>) >>)

\* new_script.py morning_exercises (line 1261)
morning_exercises(c) ==
    Generative(c, "Generate morning exercises.", "Uprazhneniya dlya utra:")

\* new_script.py morning_meditation (line 972)
morning_meditation(c) ==
    Generative(c, "Guide me through a morning meditation.", "Utrennyaya meditatsiya:")

\* new_script.py breakfast (line 986)
breakfast(c) == Generative(c, "Recommend a healthy breakfast.", "Rekomendatsii na zavtrak:")

\* new_script.py evening_rituals (line 1000)
evening_rituals(c) ==
    Screen(c, "Vechernie Ritualy:",
           << B("Refleksiya Dnya", <<"evening", "reflection">>),
              B("Chtenie", <<"evening", "reading">>),
              B("Meditatsiya Pered Snom", <<"evening", "meditation">>),
              B("Dnevnye i Nochnye Ritualy", <<"rituals">>) >>)

\* new_script.py evening_reflection (line 1019)
evening_reflection(c) ==
    Generative(c, "Guide me through an evening reflection.", "Refleksiya dnya:")

\* new_script.py evening_reading (line 1033)
evening_reading(c) == Screen(c, "Chtenie pered snom.", <<>>)

\* new_script.py evening_meditation (line 1045)
evening_meditation(c) ==
    Generative(c, "Guide me through a bedtime meditation.", "Meditatsiya pered snom:")

\* new_script.py personal_profile (the definition in force, line 1112)
personal_profile(c) ==
    Screen(c, "Lichnyi Profil:",
           << B("Progress Meditatsiy", <<"meditation", "progress">>),
              B("Dostizheniya i Urovni", <<"achievements", "levels">>),
              B("Nastroyki Profilya", <<"profile", "settings">>),
              MainMenuButton >>)

\* new_script.py meditation_progress (line 1131)
meditation_progress(c) == Screen(c, "Zdes budet vash progress v meditatsiyakh.", <<>>)

\* new_script.py achievements_levels (line 1143)
achievements_levels(c) == Screen(c, "Zdes budut vashi dostizheniya i urovni.", <<>>)

\* new_script.py profile_settings (line 1155)
profile_settings(c) == Screen(c, "Zdes vy mozhete izmenit nastroyki profilya.", <<>>)

---------------------------------------------------------------------------
(* new_script.py main: the handlers in the order add_handler registers     *)
(* them, all in group 0                                                    *)

\* a pattern is the set of its alternatives ("a|b"), each a tuple of words;
\* the words "\\d+" and "\\w+" stand for those character classes
HAlt(kind, alternatives, callback) ==
    [kind |-> kind, pattern |-> alternatives, callback |-> callback]

H(kind, pattern, callback) == HAlt(kind, {pattern}, callback)

Handlers ==
    <<
       H("command", <<"start">>, "start"),
       H("command", <<"menu">>, "menu"),
       H("callback", <<"set", "language", "uk">>, "set_language_uk"),
       H("callback", <<"set", "language", "ru">>, "set_language_ru"),
       H("callback", <<"set", "language", "en">>, "set_language_en"),
       H("callback", <<"mindfulness", "path">>, "mindfulness_path"),
       H("callback", <<"self", "assessment">>, "self_assessment"),
       H("callback", <<"my", "results">>, "my_results"),
       H("callback", <<"mindfulness", "tips">>, "mindfulness_tips"),
       H("callback", <<"meditation">>, "meditation"),
       H("callback", <<"short", "sessions">>, "short_sessions"),
       H("callback", <<"meditate", "5">>, "meditate_5"),
       H("callback", <<"meditate", "10">>, "meditate_10"),
       H("callback", <<"meditate", "20">>, "meditate_20"),
       H("callback", <<"atmosphere", "meditations">>, "atmosphere_meditations"),
       H("callback", <<"rain", "sounds">>, "rain_sounds"),
       H("callback", <<"forest", "sounds">>, "forest_sounds"),
       H("callback", <<"ocean", "sounds">>, "ocean_sounds"),
       H("callback", <<"personalized", "sessions">>, "personalized_sessions"),
       H("callback", <<"get", "motivation">>, "get_motivation"),
       H("callback", <<"motivational", "quotes">>, "motivational_quotes"),
       H("callback", <<"inspiring", "music">>, "inspiring_music"),
       H("callback", <<"inspiring", "videos">>, "inspiring_videos"),
       H("callback", <<"start", "journal">>, "start_journal"),
       H("callback", <<"new", "entry">>, "new_entry"),
       H("callback", <<"view", "entries">>, "view_entries"),
       H("message", <<>>, "save_journal_entry"),
       H("callback", <<"productivity", "checklist">>, "productivity_checklist"),
       H("callback", <<"create", "checklist">>, "create_checklist"),
       H("callback", <<"my", "checklists">>, "my_checklists"),
       H("message", <<>>, "save_checklist_entry"),
       H("callback", <<"mini", "games">>, "mini_games"),
       H("callback", <<"game", "find", "differences">>, "game_find_differences"),
       H("callback", <<"game", "attention">>, "game_attention"),
       H("callback", <<"game", "quiz">>, "game_quiz"),
       H("callback", <<"rituals">>, "rituals"),
       H("callback", <<"morning", "rituals">>, "morning_rituals"),
       H("callback", <<"morning", "exercises">>, "morning_exercises"),
       H("callback", <<"morning", "meditation">>, "morning_meditation"),
       H("callback", <<"breakfast">>, "breakfast"),
       H("callback", <<"evening", "rituals">>, "evening_rituals"),
       H("callback", <<"evening", "reflection">>, "evening_reflection"),
       H("callback", <<"evening", "reading">>, "evening_reading"),
       H("callback", <<"evening", "meditation">>, "evening_meditation"),
       H("callback", <<"share", "mood">>, "share_mood"),
       H("callback", <<"improve", "mood">>, "improve_mood"),
       H("callback", <<"personal", "profile">>, "personal_profile"),
       H("callback", <<"meditation", "progress">>, "meditation_progress"),
       H("callback", <<"achievements", "levels">>, "achievements_levels"),
       H("callback", <<"profile", "settings">>, "profile_settings"),
       H("callback", <<"daily", "challenges">>, "daily_challenges"),
       H("callback", <<"mindful", "breathing">>, "mindful_breathing"),
       H("callback", <<"meditation", "exercises">>, "meditation_exercises"),
       H("callback", <<"productivity", "tasks">>, "productivity_tasks"),
       H("callback", <<"community">>, "community"),
       H("callback", <<"share", "success">>, "share_success"),
       H("callback", <<"inspiring", "stories">>, "inspiring_stories"),
       H("callback", <<"comments", "reviews">>, "comments_reviews"),
       H("callback", <<"update", "channel">>, "update_channel")
    >>

DigitWords == {"0", "1", "2", "3"}

WordMatch(p, w) ==
    CASE p = "\\d+" -> w \in DigitWords
      [] p = "\\w+" -> TRUE
      [] OTHER     -> w = p

\* re.match(pattern, data): the pattern has to match at the start of data
\* only, so a pattern also accepts every longer token it is a prefix of
ReMatch(pattern, data) ==
    \E alt \in pattern :
        /\ Len(alt) <= Len(data)
        /\ \A i \in 1..Len(alt) : WordMatch(alt[i], data[i])

\* Handler.check_update of CommandHandler, CallbackQueryHandler and
\* MessageHandler(filters.TEXT & ~filters.COMMAND)
CheckUpdate(h, update) ==
    CASE h.kind = "command"  -> update.type = "command" /\ update.data \in h.pattern
      [] h.kind = "callback" -> update.type = "callback" /\ ReMatch(h.pattern, update.data)
      [] h.kind = "message"  -> update.type = "message"

\* Application.process_update: within a group the first handler whose
\* check_update accepts the update handles it, and no other; 0 when none does
ResolveIn(registry, update) ==
    LET hits == {i \in 1..Len(registry) : CheckUpdate(registry[i], update)}
    IN  IF hits = {} THEN 0 ELSE CHOOSE i \in hits : \A j \in hits : i <= j

Resolve(update) == ResolveIn(Handlers, update)

\* the callbacks whose bodies new_script.py defines; the others are imported
\* from a module that is not part of the sources
Call(callback, c) ==
    CASE callback = "start"                  -> start(c)
      [] callback = "menu"                   -> menu(c)
      [] callback = "set_language_uk"        -> set_language_uk(c)
      [] callback = "set_language_ru"        -> set_language_ru(c)
      [] callback = "set_language_en"        -> set_language_en(c)
      [] callback = "mindfulness_path"       -> mindfulness_path(c)
      [] callback = "start_journal"          -> start_journal(c)
      [] callback = "new_entry"              -> new_entry(c)
      [] callback = "view_entries"           -> view_entries(c)
      [] callback = "save_journal_entry"     -> save_journal_entry(c)
      [] callback = "productivity_checklist" -> productivity_checklist(c)
      [] callback = "create_checklist"       -> create_checklist(c)
      [] callback = "my_checklists"          -> my_checklists(c)
      [] callback = "save_checklist_entry"   -> save_checklist_entry(c)
      [] callback = "get_motivation"         -> get_motivation(c)
      [] callback = "motivational_quotes"    -> motivational_quotes(c)
      [] callback = "personalized_sessions"  -> personalized_sessions(c)
      [] callback = "mini_games"             -> mini_games(c)
      [] callback = "game_quiz"              -> game_quiz(c)
      [] callback = "rituals"                -> rituals(c)
      [] callback = "morning_rituals"        -> morning_rituals(c)
      [] callback = "morning_exercises"      -> morning_exercises(c)
      [] callback = "morning_meditation"     -> morning_meditation(c)
      [] callback = "breakfast"              -> breakfast(c)
      [] callback = "evening_rituals"        -> evening_rituals(c)
      [] callback = "evening_reflection"     -> evening_reflection(c)
      [] callback = "evening_reading"        -> evening_reading(c)
      [] callback = "evening_meditation"     -> evening_meditation(c)
      [] callback = "personal_profile"       -> personal_profile(c)
      [] callback = "meditation_progress"    -> meditation_progress(c)
      [] callback = "achievements_levels"    -> achievements_levels(c)
      [] callback = "profile_settings"       -> profile_settings(c)
      [] OTHER                               -> NoEffect(c)

\* an unmatched update treated as a return to the start: the user's
\* context.user_data is cleared
UnhandledResets(c) == Effect(c.store, EmptyDict, <<>>, 0, 0)

\* an update no handler accepts is dropped: main registers no fallback
Unhandled(c) == NoEffect(c)

ProcessUpdate(c) ==
    LET i == Resolve(c.update)
    IN  IF i = 0 THEN Unhandled(c) ELSE Call(Handlers[i].callback, c)

---------------------------------------------------------------------------
(* The menu bot as a state machine *)

\* the callback data the model presses: buttons of the keyboards above
\* whose handlers are in the sources, and the two that no pattern matches
PressTokens ==
    { <<"set", "language", "uk">>, <<"set", "language", "ru">>, <<"set", "language", "en">>,
      <<"mindfulness", "path">>, <<"start", "journal">>, <<"new", "entry">>,
      <<"view", "entries">>, <<"productivity", "checklist">>, <<"create", "checklist">>,
      <<"my", "checklists">>, <<"main", "menu">>, <<"start">>,
      <<"get", "motivation">>, <<"motivational", "quotes">>,
      <<"personalized", "sessions">>, <<"mini", "games">>, <<"game", "quiz">>,
      <<"rituals">>, <<"morning", "rituals">>, <<"morning", "exercises">>,
      <<"morning", "meditation">>, <<"breakfast">>, <<"evening", "rituals">>,
      <<"evening", "reflection">>, <<"evening", "reading">>,
      <<"evening", "meditation">>, <<"personal", "profile">>,
      <<"achievements", "levels">>, <<"profile", "settings">> }

CommandNames == {"start", "menu"}

\* what an earlier run left in bot_data.db
StoredRows ==
    save_user_data(EmptyDict, StoredUser,
                   [language |-> "ru",
                    journal  |-> <<[timestamp |-> Strftime(AnyNow),
                                    entry |-> "b"]>>])

Init ==
    /\ db = StoredRows
    /\ user_data = [u \in Users |-> EmptyDict]
    /\ event = NoEvent
    /\ replies = <<>>
    /\ saves = 0
    /\ gens = 0
    /\ failures = {}
    /\ run = EmptyDict
    /\ arg = None
    /\ ret = <<>>
    /\ tasks = <<>>

\* the collaborators that were called and raised
Failures(e, genOk, saveOk) ==
    (IF e.gens > 0 /\ ~genOk THEN {"generate"} ELSE {})
        \cup (IF e.saves > 0 /\ ~saveOk THEN {"save"} ELSE {})

\* one update, handled to completion
Deliver(update, now, genOk, saveOk) ==
    \E u \in {update.user} :
    \E e \in {ProcessUpdate(Ctx(db, user_data[u], update, now, genOk, saveOk))} :
        /\ db' = e.store
        /\ user_data' = [user_data EXCEPT ![u] = e.data]
        /\ event' = update
        /\ replies' = e.replies
        /\ saves' = e.saves
        /\ gens' = e.gens
        /\ failures' = Failures(e, genOk, saveOk)
        /\ UNCHANGED <<run, arg, ret, tasks>>

CommandEvent ==
    \E u \in Users, name \in CommandNames :
        Deliver(Command(u, name), AnyNow, TRUE, TRUE)

ButtonPress ==
    \E u \in Users, token \in PressTokens :
        Deliver(Callback(u, token), AnyNow, TRUE, TRUE)

FreeText ==
    \E u \in Users, text \in Texts, now \in NowValues :
        /\ Len(Get(user_data[u], "journal", <<>>)) < MaxJournal
        /\ Deliver(Message(u, text), now, TRUE, TRUE)

\* the process stops and starts again: context.user_data is lost, the
\* database file stays
Restart ==
    /\ user_data' = [u \in Users |-> EmptyDict]
    /\ event' = [type |-> "restart", user |-> 0, data |-> <<>>]
    /\ replies' = <<>>
    /\ saves' = 0
    /\ gens' = 0
    /\ failures' = {}
    /\ UNCHANGED <<db, run, arg, ret, tasks>>

Next == CommandEvent \/ ButtonPress \/ FreeText \/ Restart

Spec == Init /\ [][Next]_vars

---------------------------------------------------------------------------
(* The menu bot with collaborators that may fail: the text generator may   *)
(* raise under any update and a write to bot_data.db may raise             *)
(* sqlite3.Error under any update                                          *)

\* entries one process keeps per user when writes may fail
MaxFaultJournal == 1

\* the text sent when writes may fail
FaultTexts == {"a"}

FaultyCommand ==
    \E u \in Users, name \in CommandNames, genOk \in BOOLEAN, saveOk \in BOOLEAN :
        Deliver(Command(u, name), AnyNow, genOk, saveOk)

FaultyPress ==
    \E u \in Users, token \in PressTokens, genOk \in BOOLEAN, saveOk \in BOOLEAN :
        Deliver(Callback(u, token), AnyNow, genOk, saveOk)

FaultyText ==
    \E u \in Users, text \in FaultTexts, genOk \in BOOLEAN, saveOk \in BOOLEAN :
        /\ Len(Get(user_data[u], "journal", <<>>)) < MaxFaultJournal
        /\ Deliver(Message(u, text), AnyNow, genOk, saveOk)

FaultsNext == FaultyCommand \/ FaultyPress \/ FaultyText \/ Restart

SpecFaults == Init /\ [][FaultsNext]_vars

---------------------------------------------------------------------------
(* The menu bot with a note of one earlier rendering of a screen, to       *)
(* compare a later rendering of the same screen with                       *)

\* entries one process keeps per user while renderings are compared
MaxRenderJournal == 1

\* the tokens whose handlers send a menu screen
ScreenTokens ==
    { <<"mindfulness", "path">>, <<"start", "journal">>, <<"productivity", "checklist">>,
      <<"get", "motivation">>, <<"mini", "games">>, <<"rituals">>,
      <<"morning", "rituals">>, <<"evening", "rituals">>, <<"personal", "profile">> }

LanguageTokens ==
    { <<"set", "language", "uk">>, <<"set", "language", "ru">>, <<"set", "language", "en">> }

\* the language column of the user's row, None when NULL or when no row
StoredLanguage(store, u) == IF u \in DOMAIN store THEN store[u].language ELSE None

RenderPress ==
    \E u \in Users,
       token \in ScreenTokens \cup LanguageTokens
                     \cup { <<"new", "entry">>, <<"create", "checklist">> } :
        Deliver(Callback(u, token), AnyNow, TRUE, TRUE)

RenderText ==
    \E u \in Users, text \in FaultTexts :
        /\ Len(Get(user_data[u], "journal", <<>>)) < MaxRenderJournal
        /\ Deliver(Message(u, text), AnyNow, TRUE, TRUE)

\* note the screen that has just been sent, once
Remember ==
    /\ ret = <<>>
    /\ event.type = "callback"
    /\ event.data \in ScreenTokens \cup LanguageTokens
    /\ ret' = <<[screen   |-> event.data,
                 language |-> StoredLanguage(db, event.user),
                 awaiting |-> Truthy(user_data[event.user], "awaiting_journal"),
                 replies  |-> replies]>>
    /\ UNCHANGED <<db, user_data, event, replies, saves, gens, failures, run, arg, tasks>>

RenderNext == RenderPress \/ RenderText \/ Remember \/ Restart

SpecRender == Init /\ [][RenderNext]_vars

---------------------------------------------------------------------------
(* chil_life_bot.py: the quiz *)

\* len(questions) and len(answers[i])
NumQuestions == 30
NumOptions == 3

\* chil_life_bot.py questions: the texts, named by their place in the list
questions == [i \in 1..NumQuestions |-> <<"question", i>>]

\* chil_life_bot.py answers: one list of option labels per question
answers == [i \in 1..NumQuestions |-> [k \in 1..NumOptions |-> <<"option", i, k>>]]

\* str(i) and int(s) on the indices that occur
Numerals == <<"0", "1", "2", "3">>
Str(i) == Numerals[i + 1]
IntOf(w) == (CHOOSE i \in 1..Len(Numerals) : Numerals[i] = w) - 1

High   == "Vysokiy uroven osoznannosti"
Medium == "Sredniy uroven osoznannosti"
Low    == "Nizkiy uroven osoznannosti"

\* analyze_test_result with the first threshold made exclusive
analyze_test_result_exclusive(score) ==
    IF score > 30 THEN High
    ELSE IF 20 <= score /\ score < 30 THEN Medium
    ELSE Low

\* chil_life_bot.py analyze_test_result
analyze_test_result(score) ==
    IF score >= 30 THEN High
    ELSE IF 20 <= score /\ score < 30 THEN Medium
    ELSE Low

\* ask_next_question comparing the index with len(questions) - 1
ask_next_question_stops_early(c) ==
    LET question_index == c.data["test_question"]
    IN  IF question_index < Len(questions) - 1
        THEN Effect(c.store, Put(c.data, "test_question", question_index + 1),
                    <<Reply(questions[question_index + 1],
                            [k \in 1..NumOptions |->
                                B(answers[question_index + 1][k], <<"answer", Str(k - 1)>>)])>>,
                    0, 0)
        ELSE Effect(c.store, c.data,
                    <<ReplyWith("Tvoy rezultat:",
                                <<c.data["test_score"],
                                  analyze_test_result(c.data["test_score"])>>)>>, 0, 0)

\* chil_life_bot.py ask_next_question; Python lists count from 0
ask_next_question(c) ==
    LET question_index == c.data["test_question"]
    IN  IF question_index < Len(questions)
        THEN LET question == questions[question_index + 1]
                 options  == answers[question_index + 1]
                 keyboard == [k \in 1..Len(options) |->
                                 B(options[k], <<"answer", Str(k - 1)>>)]
             IN  Effect(c.store,
                        Put(c.data, "test_question", question_index + 1),
                        <<Reply(question, keyboard)>>, 0, 0)
        ELSE LET score  == c.data["test_score"]
                 result == analyze_test_result(score)
             IN  Effect(c.store, c.data,
                        <<ReplyWith("Tvoy rezultat:", <<score, result>>)>>, 0, 0)

\* start_test also marking the conversation as awaiting a text
start_test_awaits_text(c) ==
    ask_next_question([c EXCEPT !.data = Put(Put(Put(c.data, "test_score", 0),
                                                  "test_question", 0),
                                              "awaiting_journal", TRUE)])

\* chil_life_bot.py start_test
start_test(c) ==
    ask_next_question([c EXCEPT !.data = Put(Put(c.data, "test_score", 0),
                                              "test_question", 0)])

\* the score a press adds, without the + 1
AnswerPointsIndexOnly(answer_index) == answer_index

\* the score a press adds: answer_index + 1
AnswerPoints(answer_index) == answer_index + 1

\* chil_life_bot.py handle_answer: user_data['test_score'] raises KeyError
\* when no test was started in this process
handle_answer(c) ==
    LET answer_index == IntOf(c.update.data[2])
    IN  IF "test_score" \notin DOMAIN c.data THEN NoEffect(c)
        ELSE ask_next_question(
                [c EXCEPT !.data = Put(c.data, "test_score",
                                       c.data["test_score"] + AnswerPoints(answer_index))])

\* chil_life_bot.py start (named chil_start here: new_script.py has a start)
chil_start(c) ==
    IF c.update.type # "command" THEN NoEffect(c)
    ELSE Screen(c, "Privet!",
                << B("Nachat test osoznannosti", <<"start", "test">>),
                   B("Nachat meditatsiyu", <<"start", "meditation">>),
                   B("Poluchit motivatsiyu", <<"get", "motivation">>),
                   B("Podelitsya nastroeniem", <<"share", "mood">>),
                   B("Svyazatsya s botom", <<"contact", "support">>) >>)

\* chil_life_bot.py get_motivation (named chil_get_motivation here): the call
\* of motivational_generator is in no try, so when it raises the handler
\* raises before reply_text
chil_get_motivation(c) ==
    IF ~c.genOk THEN Effect(c.store, c.data, <<>>, 0, 1)
    ELSE Effect(c.store, c.data,
                <<ReplyWith("*", <<"generated", "Motivational quote: ">>)>>, 0, 1)

\* chil_life_bot.py start_meditation
start_meditation(c) ==
    Screen(c, "Vyberi dlitelnost meditatsii:",
           << B("Korotkaya meditatsiya (5 minut)", <<"short", "meditation">>),
              B("Srednyaya meditatsiya (10 minut)", <<"medium", "meditation">>),
              B("Dlitelnaya meditatsiya (20 minut)", <<"long", "meditation">>),
              B("Otmena", <<"cancel", "meditation">>) >>)

\* chil_life_bot.py meditation_selection: query.data.split("_")[0] is the
\* first word alone, which is compared with the whole tokens
meditation_selection(c) ==
    LET meditation_type == <<c.update.data[1]>>
        meditation_time ==
            IF meditation_type = <<"short", "meditation">> THEN 5
            ELSE IF meditation_type = <<"medium", "meditation">> THEN 10
            ELSE IF meditation_type = <<"long", "meditation">> THEN 20
            ELSE 0
    IN  IF meditation_time = 0
        THEN Screen(c, "Meditatsiya otmenena.", <<>>)
        ELSE Effect(c.store, c.data,
                    << ReplyWith("Nachinaem meditatsiyu na", <<meditation_time>>),
                       ReplyWith("Meditatsiya zavershena", <<meditation_time>>) >>, 0, 0)

\* chil_life_bot.py share_mood
share_mood(c) ==
    Screen(c, "Kak ty sebya chuvstvuesh segodnya?",
           << B("Schastliv", <<"mood", "happy">>), B("Spokoen", <<"mood", "calm">>),
              B("Grushchu", <<"mood", "sad">>), B("Zadumalsya", <<"mood", "thoughtful">>),
              B("Ustal", <<"mood", "tired">>) >>)

\* handle_mood keeping the mood in context.user_data
handle_mood_records(c) ==
    Effect(c.store, Put(c.data, "mood", c.update.data[2]),
           <<Reply(IF c.update.data[2] = "happy" THEN "Radost napolnyaet serdtse!"
                   ELSE "Otdykhay i vosstanavlivay sily.", <<>>)>>, 0, 0)

\* chil_life_bot.py handle_mood
handle_mood(c) ==
    LET mood == c.update.data[2]
        response == CASE mood = "happy"      -> "Radost napolnyaet serdtse!"
                      [] mood = "calm"       -> "Tvoya vnutrennyaya garmoniya siyaet!"
                      [] mood = "sad"        -> "Pechal - eto vremenno."
                      [] mood = "thoughtful" -> "Inogda polezno zadumatsya."
                      [] OTHER               -> "Otdykhay i vosstanavlivay sily."
    IN  Screen(c, response, <<>>)

\* chil_life_bot.py contact_support
contact_support(c) == Screen(c, "Esli u tebya voznikli voprosy, napishi nam zdes!", <<>>)

\* chil_life_bot.py cancel_meditation
cancel_meditation(c) == Screen(c, "Meditatsiya otmenena. Vyberite deystvie v menyu.", <<>>)

\* chil_life_bot.py main
QuizHandlers ==
    << H("command", <<"start">>, "start"),
       H("callback", <<"start", "test">>, "start_test"),
       H("callback", <<"start", "meditation">>, "start_meditation"),
       H("callback", <<"get", "motivation">>, "get_motivation"),
       H("callback", <<"share", "mood">>, "share_mood"),
       H("callback", <<"contact", "support">>, "contact_support"),
       HAlt("callback", { <<"short", "meditation">>, <<"medium", "meditation">>,
                          <<"long", "meditation">> }, "meditation_selection"),
       H("callback", <<"answer", "\\d+">>, "handle_answer"),
       H("callback", <<"mood", "\\w+">>, "handle_mood"),
       H("callback", <<"cancel", "meditation">>, "cancel_meditation") >>

QuizResolve(update) == ResolveIn(QuizHandlers, update)

QuizCall(callback, c) ==
    CASE callback = "start"                -> chil_start(c)
      [] callback = "start_test"           -> start_test(c)
      [] callback = "start_meditation"     -> start_meditation(c)
      [] callback = "get_motivation"       -> chil_get_motivation(c)
      [] callback = "share_mood"           -> share_mood(c)
      [] callback = "contact_support"      -> contact_support(c)
      [] callback = "meditation_selection" -> meditation_selection(c)
      [] callback = "handle_answer"        -> handle_answer(c)
      [] callback = "handle_mood"          -> handle_mood(c)
      [] callback = "cancel_meditation"    -> cancel_meditation(c)

QuizProcessUpdate(c) ==
    LET i == QuizResolve(c.update)
    IN  IF i = 0 THEN Unhandled(c) ELSE QuizCall(QuizHandlers[i].callback, c)

---------------------------------------------------------------------------
(* The quiz bot as a state machine *)

\* answer presses followed within one test run, one more than the test asks
\* for: the last keyboard stays on screen after the result
MaxAnswers == 31

\* the buttons of a question, and one index no keyboard offers
AnswerTokens == { <<"answer", w>> : w \in DigitWords }

IsAnswer(update) == update.type = "callback" /\ update.data \in AnswerTokens
IsStartTest(update) == update.type = "callback" /\ update.data = <<"start", "test">>

\* the answers pressed since the last start_test: how many, and the sum of
\* (selected option index + 1)
RunAfter(update) ==
    IF IsStartTest(update) THEN [n |-> 0, sum |-> 0, offered |-> TRUE]
    ELSE IF IsAnswer(update) /\ run # EmptyDict
         THEN [n |-> run.n + 1, sum |-> run.sum + IntOf(update.data[2]) + 1,
               offered |-> run.offered /\ IntOf(update.data[2]) < NumOptions]
         ELSE run

QuizInit ==
    /\ db = EmptyDict
    /\ user_data = [u \in Users |-> EmptyDict]
    /\ event = NoEvent
    /\ replies = <<>>
    /\ saves = 0
    /\ gens = 0
    /\ failures = {}
    /\ run = EmptyDict
    /\ arg = None
    /\ ret = <<>>
    /\ tasks = <<>>

QuizDeliver(update, genOk) ==
    \E u \in {update.user} :
    \E e \in {QuizProcessUpdate(Ctx(db, user_data[u], update, AnyNow, genOk, TRUE))} :
        /\ db' = e.store
        /\ user_data' = [user_data EXCEPT ![u] = e.data]
        /\ event' = update
        /\ replies' = e.replies
        /\ saves' = e.saves
        /\ gens' = e.gens
        /\ failures' = Failures(e, genOk, TRUE)
        /\ run' = RunAfter(update)
        /\ UNCHANGED <<arg, ret, tasks>>

QuizStartTest == \E u \in Users : QuizDeliver(Callback(u, <<"start", "test">>), TRUE)

QuizAnswer ==
    \E u \in Users, token \in AnswerTokens :
        /\ run # EmptyDict => run.n < MaxAnswers
        /\ QuizDeliver(Callback(u, token), TRUE)

\* the other buttons the bot sends
QuizPressTokens ==
    { <<"start", "meditation">>, <<"get", "motivation">>, <<"share", "mood">>,
      <<"contact", "support">>, <<"short", "meditation">>, <<"cancel", "meditation">>,
      <<"mood", "happy">>, <<"mood", "tired">> }

QuizPress ==
    \E u \in Users, token \in QuizPressTokens, genOk \in BOOLEAN :
        QuizDeliver(Callback(u, token), genOk)

QuizCommand == \E u \in Users : QuizDeliver(Command(u, "start"), TRUE)

QuizRestart ==
    /\ user_data' = [u \in Users |-> EmptyDict]
    /\ event' = [type |-> "restart", user |-> 0, data |-> <<>>]
    /\ replies' = <<>>
    /\ saves' = 0
    /\ gens' = 0
    /\ failures' = {}
    /\ run' = EmptyDict
    /\ UNCHANGED <<db, arg, ret, tasks>>

QuizNext == QuizStartTest \/ QuizAnswer \/ QuizPress \/ QuizCommand \/ QuizRestart

SpecQuiz == QuizInit /\ [][QuizNext]_vars

---------------------------------------------------------------------------
(* analyze_test_result applied to a score of any sign *)

\* scores tried: -ScoreSpan .. ScoreSpan
ScoreSpan == 100

AnalyzeInit ==
    /\ db = EmptyDict
    /\ user_data = [u \in Users |-> EmptyDict]
    /\ event = NoEvent
    /\ replies = <<>>
    /\ saves = 0
    /\ gens = 0
    /\ failures = {}
    /\ run = EmptyDict
    /\ arg \in (0 - ScoreSpan)..ScoreSpan
    /\ ret = <<>>
    /\ tasks = <<>>

Analyze ==
    /\ ret = <<>>
    /\ ret' = <<analyze_test_result(arg)>>
    /\ UNCHANGED <<db, user_data, event, replies, saves, gens, failures, run, arg, tasks>>

SpecAnalyze == AnalyzeInit /\ [][Analyze]_vars

---------------------------------------------------------------------------
(* save_user_data followed by load_user_data, on any record *)

\* entries in the journal, and in the checklists, of a record that is saved
MaxStored == 2

RECURSIVE SeqsUpTo(_, _)
SeqsUpTo(S, n) ==
    IF n = 0 THEN {<<>>}
    ELSE LET shorter == SeqsUpTo(S, n - 1)
         IN  shorter \cup {Append(q, x) : q \in shorter, x \in S}

JournalEntries == {[timestamp |-> Strftime(AnyNow), entry |-> t] : t \in Texts}

UserRecords ==
    { [language |-> l, journal |-> j, checklists |-> k] :
        l \in {"uk", "ru", "en"},
        j \in SeqsUpTo(JournalEntries, MaxStored),
        k \in SeqsUpTo(Texts, MaxStored) }

StoreInit ==
    /\ db = StoredRows
    /\ user_data = [u \in Users |-> EmptyDict]
    /\ event = NoEvent
    /\ replies = <<>>
    /\ saves = 0
    /\ gens = 0
    /\ failures = {}
    /\ run = EmptyDict
    /\ arg \in UserRecords
    /\ ret = <<>>
    /\ tasks = <<>>

StoreSave ==
    \E user_id \in Users \cup {StoredUser} :
        /\ event = NoEvent
        /\ db' = save_user_data(db, user_id, arg)
        /\ event' = [type |-> "saved", user |-> user_id, data |-> <<>>]
        /\ saves' = 1
        /\ UNCHANGED <<user_data, replies, gens, failures, run, arg, ret, tasks>>

StoreLoad ==
    /\ event.type = "saved"
    /\ ret = <<>>
    /\ ret' = <<load_user_data(db, event.user)>>
    /\ UNCHANGED <<db, user_data, event, replies, saves, gens, failures, run, arg, tasks>>

StoreNext == StoreSave \/ StoreLoad

SpecStore == StoreInit /\ [][StoreNext]_vars

---------------------------------------------------------------------------
(* Abbreviations of the properties *)

IsText(update, u) == update.type = "message" /\ update.user = u

IsPress(update, u, token) ==
    update.type = "callback" /\ update.user = u /\ update.data = token

\* context.user_data["journal"] of a user, [] when the key is missing
SessionJournal(u) == Get(user_data[u], "journal", <<>>)

\* the journal load_user_data reads back from a store
PersistedJournal(store, u) == load_user_data(store, u).journal

AwaitingJournal(u) == Truthy(user_data[u], "awaiting_journal")
AwaitingChecklist(u) == Truthy(user_data[u], "awaiting_checklist")

\* a test is in progress: the question index and the running score are kept
InQuiz(u) == {"test_question", "test_score"} \subseteq DOMAIN user_data[u]

\* context.user_data["test_score"]
Score(u) == user_data[u]["test_score"]

\* the texts that confirm a recording action or a language selection
Confirmations ==
    { "Vashi mysli sokhraneny!", "Chek-list sokhranen!",
      LanguageSelected.uk, LanguageSelected.ru, LanguageSelected.en }

EnglishMenu == <<Reply("Glavnoe menyu / Main menu:", MenuKeyboard("en"))>>

IsResult(r) == Len(r.text) = 2 /\ r.text[1] = "Tvoy rezultat:"

ResultSent == \E i \in 1..Len(replies) : IsResult(replies[i])

---------------------------------------------------------------------------
(* The properties *)

\* C1: every callback_data on a keyboard the bot has just sent is accepted
\* by a registered handler (no button has a dangling target).
C1_MenuGraphClosed ==
    \A i \in 1..Len(replies) :
        \A j \in 1..Len(replies[i].keyboard) :
            Resolve(Callback(event.user, replies[i].keyboard[j].callback_data)) # 0

\* C2: a result message carries the sum of (selected option index + 1) over
\* the answers pressed since the most recent start_test.
C2_FinalScoreIsSum ==
    \A i \in 1..Len(replies) :
        IsResult(replies[i]) => run # EmptyDict /\ replies[i].text[2][1] = run.sum

\* 30 answers of index 2 have been pressed and the result says 90
C2_Witness ==
    /\ ResultSent
    /\ run.n = NumQuestions
    /\ replies[1].text[2][1] = 90

\* C3: analyze_test_result returns the high tier exactly for score >= 30,
\* the medium tier exactly for 20 <= score < 30 and the low tier exactly for
\* score < 20, and the three tiers are different answers.
C3_Tiers ==
    ret # <<>> =>
        /\ (ret[1] = High) <=> (arg >= 30)
        /\ (ret[1] = Medium) <=> (20 <= arg /\ arg < 30)
        /\ (ret[1] = Low) <=> (arg < 20)
        /\ Cardinality({High, Medium, Low}) = 3

\* the boundary score 29 classified as medium
C3_Witness == arg = 29 /\ ret = <<Medium>>

\* C4: the text that follows a new_entry press appends one entry to the
\* user's journal, clears the awaiting flag and saves once; a text that
\* follows a text appends nothing and saves nothing.
C4_ExactlyOnce ==
    [][\A u \in Users :
        /\ (IsPress(event, u, <<"new", "entry">>) /\ IsText(event', u)) =>
              /\ Len(SessionJournal(u)') = Len(SessionJournal(u)) + 1
              /\ SessionJournal(u)'[Len(SessionJournal(u)')].entry = event'.data[1]
              /\ user_data'[u]["awaiting_journal"] = FALSE
              /\ saves' = 1
              /\ Len(PersistedJournal(db', u)) = Len(SessionJournal(u)')
        /\ (IsText(event, u) /\ IsText(event', u)) =>
              /\ SessionJournal(u)' = SessionJournal(u)
              /\ saves' = 0
              /\ db' = db
              /\ replies' = <<>>
      ]_vars

\* a second text has been handled: one entry, nothing saved, flag cleared
C4_Witness ==
    \E u \in Users :
        /\ IsText(event, u)
        /\ saves = 0
        /\ Len(SessionJournal(u)) = 1
        /\ Len(PersistedJournal(db, u)) = 1
        /\ "awaiting_journal" \in DOMAIN user_data[u]
        /\ ~AwaitingJournal(u)

\* C5: load_user_data after save_user_data returns the language, the journal
\* and the checklists of the record that was saved.
C5_RoundTrip ==
    ret # <<>> =>
        /\ ret[1].language = arg.language
        /\ ret[1].journal = arg.journal
        /\ Get(ret[1], "checklists", <<>>) = arg.checklists

\* C6: recording a journal entry extends the journal that was persisted
\* before by one entry at the end.
C6_AppendOnly ==
    [][\A u \in Users :
        (IsText(event', u) /\ saves' = 1) =>
            /\ Len(PersistedJournal(db', u)) = Len(PersistedJournal(db, u)) + 1
            /\ SubSeq(PersistedJournal(db', u), 1, Len(PersistedJournal(db, u)))
                   = PersistedJournal(db, u)
      ]_vars

\* C7: with the awaiting-checklist flag set, the next text is appended to
\* the user's checklists, saved, and the flag is cleared.
C7_ChecklistCapture ==
    [][\A u \in Users :
        (AwaitingChecklist(u) /\ IsText(event', u)) =>
            /\ "checklists" \in DOMAIN user_data'[u]
            /\ \E i \in 1..Len(user_data'[u]["checklists"]) :
                   user_data'[u]["checklists"][i] = event'.data[1]
            /\ ~AwaitingChecklist(u)'
            /\ saves' = 1
      ]_vars

\* C8: a text received while neither awaiting flag is set sends no reply,
\* saves nothing and leaves context.user_data and the database as they were.
C8_FreeTextNoFlagNoop ==
    [][\A u \in Users :
        (IsText(event', u) /\ ~AwaitingJournal(u) /\ ~AwaitingChecklist(u)) =>
            /\ replies' = <<>>
            /\ saves' = 0
            /\ user_data' = user_data
            /\ db' = db
      ]_vars

\* a text has been handled with no flag set, and nothing was sent
C8_Witness ==
    \E u \in Users :
        /\ IsText(event, u)
        /\ ~AwaitingJournal(u)
        /\ ~AwaitingChecklist(u)
        /\ replies = <<>>
        /\ saves = 0

\* C9: a button press that no handler accepts is answered with a message.
C9_UnknownCallbackAnswered ==
    (event.type = "callback" /\ Resolve(event) = 0) => replies # <<>>

\* C10: a button press that no handler accepts leaves context.user_data and
\* the database as they were, and saves nothing.
C10_UnknownCallbackFrame ==
    [][(event'.type = "callback" /\ Resolve(event') = 0) =>
            /\ user_data' = user_data
            /\ db' = db
            /\ saves' = 0
      ]_vars

\* the main_menu button has been pressed while a journal entry was awaited
C10_Witness ==
    \E u \in Users :
        /\ IsPress(event, u, <<"main", "menu">>)
        /\ Resolve(event) = 0
        /\ AwaitingJournal(u)

\* C11: a press whose handler called the text generator and found it
\* failing is answered with exactly one message, which carries the fixed
\* fallback string in place of the generated text.
C11_GenerationFailureRecovered ==
    (event.type = "callback" /\ "generate" \in failures) =>
        /\ Len(replies) = 1
        /\ replies[1].text[2] = <<GenerationError>>

\* C12: a press of a button that names a menu screen renders the screen and
\* leaves no awaiting flag set, so that a later text is not captured.
C12_ScreenPressLeavesIdle ==
    [][\A u \in Users :
        (event'.type = "callback" /\ event'.user = u /\ event'.data \in ScreenTokens) =>
            /\ replies' # <<>>
            /\ ~AwaitingJournal(u)'
            /\ ~AwaitingChecklist(u)'
      ]_vars

\* C13: the awaiting-journal flag and the awaiting-checklist flag of a
\* conversation are never both set.
C13_OneAwaitingTag ==
    \A u \in Users : ~(AwaitingJournal(u) /\ AwaitingChecklist(u))

C15_QuizCompletes ==
    \A u \in Users : (ResultSent /\ event.user = u) => ~InQuiz(u)

\* C16: every answer press the answer handler accepts during a test adds 1,
\* 2 or 3 to the running score.
C16_AnswerAddsOneToThree ==
    [][\A u \in Users :
        ( /\ event'.type = "callback"
          /\ event'.user = u
          /\ QuizResolve(event') # 0
          /\ QuizHandlers[QuizResolve(event')].callback = "handle_answer"
          /\ "test_score" \in DOMAIN user_data[u] ) =>
            Score(u)' - Score(u) \in 1..NumOptions
      ]_vars

\* C17: handling one update calls the text generator at most once and
\* save_user_data at most once.
C17_AtMostOneCallEach == gens <= 1 /\ saves <= 1

\* a language was selected: one save, and the confirmation and the menu sent
C17_Witness ==
    \E u \in Users :
        /\ IsPress(event, u, <<"set", "language", "ru">>)
        /\ saves = 1
        /\ gens = 0
        /\ Len(replies) = 2

\* C18: when save_user_data raised while an update was handled, none of the
\* messages sent for it is a confirmation.
C18_NoConfirmationOnFailedSave ==
    "save" \in failures =>
        \A i \in 1..Len(replies) : replies[i].text[1] \notin Confirmations

\* a text was awaited and received, the write failed and nothing was sent
C18_Witness ==
    \E u \in Users :
        /\ IsText(event, u)
        /\ "save" \in failures
        /\ Len(SessionJournal(u)) = 1
        /\ replies = <<>>

\* C19: when the user's stored language is missing or is neither uk nor ru,
\* an update that asks for the main menu is answered with the menu in
\* English.
C19_MenuFallback ==
    \A u \in Users :
        ( /\ event.user = u
          /\ event.type \in {"command", "callback"}
          /\ Resolve(event) # 0
          /\ Handlers[Resolve(event)].callback \in {"menu", "set_language_en"}
          /\ StoredLanguage(db, u) \notin {"uk", "ru"} ) =>
            /\ replies # <<>>
            /\ replies[Len(replies)] = EnglishMenu[1]

\* C20: a screen sent again for the same stored language has the same text
\* and the same ordered buttons as when it was noted, whatever was handled
\* in between.
C20_RenderIdempotent ==
    \A u \in Users :
        ( /\ ret # <<>>
          /\ IsPress(event, u, ret[1].screen)
          /\ StoredLanguage(db, u) = ret[1].language ) =>
            replies = ret[1].replies

\* the journal screen was noted with no entry awaited and is sent again
\* while one is awaited
C20_Witness ==
    \E u \in Users :
        /\ ret # <<>>
        /\ ret[1].screen = <<"start", "journal">>
        /\ ~ret[1].awaiting
        /\ IsPress(event, u, <<"start", "journal">>)
        /\ AwaitingJournal(u)
        /\ StoredLanguage(db, u) = ret[1].language
        /\ replies = ret[1].replies

---------------------------------------------------------------------------
(* Handlers as coroutines.  A handler runs without interruption from one   *)
(* await to the next; sqlite3 calls are synchronous.  When the application *)
(* handles updates concurrently, the coroutines of two updates of one user *)
(* interleave at their awaits, and only there.                             *)

\* updates handled at the same time
MaxTasks == 3

\* a handler coroutine: its update, the await it is suspended at ("start":
\* not run yet) and the record it loaded and has not written back
Task(update) == [update |-> update, pc |-> "start", held |-> <<>>]

\* what running a coroutine up to its next await leaves behind
Resumed(task, store, data, sent, nsaves) ==
    [task |-> task, store |-> store, data |-> data, replies |-> sent, saves |-> nsaves]

\* set_language awaiting the confirmation between the load and the save
set_language_coroutine_replies_before_save(t, store, data) ==
    LET user_id  == t.update.user
        language == t.update.data[3]
    IN  CASE t.pc = "start" ->
                 Resumed([t EXCEPT !.pc = "confirmation",
                                   !.held = <<[load_user_data(store, user_id)
                                                  EXCEPT !.language = language]>>],
                         store, data, <<Reply(LanguageSelected[language], <<>>)>>, 0)
          [] t.pc = "confirmation" ->
                 Resumed([t EXCEPT !.pc = "menu", !.held = <<>>],
                         save_user_data(store, user_id, t.held[1]), data,
                         menu(Ctx(save_user_data(store, user_id, t.held[1]), data,
                                  t.update, AnyNow, TRUE, TRUE)).replies, 1)
          [] OTHER -> Resumed([t EXCEPT !.pc = "done"], store, data, <<>>, 0)

\* new_script.py set_language_uk / _ru / _en, await by await: load, change
\* and save run before the first await (reply_text of the confirmation);
\* menu, called next, loads the record again and awaits its own reply_text
set_language_coroutine(t, store, data) ==
    LET user_id  == t.update.user
        language == t.update.data[3]
        record   == [load_user_data(store, user_id) EXCEPT !.language = language]
    IN  CASE t.pc = "start" ->
                 Resumed([t EXCEPT !.pc = "confirmation"],
                         save_user_data(store, user_id, record), data,
                         <<Reply(LanguageSelected[language], <<>>)>>, 1)
          [] t.pc = "confirmation" ->
                 Resumed([t EXCEPT !.pc = "menu"], store, data,
                         menu(Ctx(store, data, t.update, AnyNow, TRUE, TRUE)).replies, 0)
          [] OTHER -> Resumed([t EXCEPT !.pc = "done"], store, data, <<>>, 0)

\* new_script.py new_entry, await by await: the prompt is awaited first and
\* context.user_data["awaiting_journal"] is set when the coroutine resumes
new_entry_coroutine(t, store, data) ==
    CASE t.pc = "start" ->
             Resumed([t EXCEPT !.pc = "prompt"], store, data,
                     <<Reply("Napishite, chto vas volnuet", <<>>)>>, 0)
      [] OTHER ->
             Resumed([t EXCEPT !.pc = "done"], store,
                     Put(data, "awaiting_journal", TRUE), <<>>, 0)

\* new_script.py save_journal_entry, await by await: the test of the flag,
\* the append, the clearing of the flag and save_user_data run before its
\* only await (reply_text of the confirmation)
save_journal_entry_coroutine(t, store, data) ==
    CASE t.pc = "start" /\ Truthy(data, "awaiting_journal") ->
             LET e == save_journal_entry(Ctx(store, data, t.update, AnyNow, TRUE, TRUE))
             IN  Resumed([t EXCEPT !.pc = "confirmation"], e.store, e.data,
                         e.replies, e.saves)
      [] OTHER -> Resumed([t EXCEPT !.pc = "done"], store, data, <<>>, 0)

\* the coroutine of the handler the update is dispatched to
Coroutine(t, store, data) ==
    CASE t.update.type = "message" -> save_journal_entry_coroutine(t, store, data)
      [] t.update.type = "callback" /\ t.update.data = <<"new", "entry">> ->
             new_entry_coroutine(t, store, data)
      [] OTHER -> set_language_coroutine(t, store, data)

ConcurrentUpdates ==
    {Callback(u, <<"set", "language", l>>) : u \in Users, l \in {"ru", "en"}}
        \cup {Callback(u, <<"new", "entry">>) : u \in Users}
        \cup {Message(u, "a") : u \in Users}

\* the application takes an update and creates the coroutine of its handler
Spawn ==
    \E update \in ConcurrentUpdates :
        /\ Len(tasks) < MaxTasks
        /\ tasks' = Append(tasks, Task(update))
        /\ event' = update
        /\ replies' = <<>>
        /\ saves' = 0
        /\ UNCHANGED <<db, user_data, gens, failures, run, arg, ret>>

\* the event loop resumes one suspended coroutine, which runs to its next
\* await or to its end
Resume ==
    \E i \in 1..Len(tasks) :
        /\ tasks[i].pc # "done"
        /\ \E u \in {tasks[i].update.user} :
           \E r \in {Coroutine(tasks[i], db, user_data[u])} :
               /\ tasks' = [tasks EXCEPT ![i] = r.task]
               /\ db' = r.store
               /\ user_data' = [user_data EXCEPT ![u] = r.data]
               /\ event' = tasks[i].update
               /\ replies' = r.replies
               /\ saves' = r.saves
               /\ UNCHANGED <<gens, failures, run, arg, ret>>

StepsNext == Spawn \/ Resume

SpecSteps == Init /\ [][StepsNext]_vars

\* the coroutine whose step this is
Stepped(i) == i \in 1..Len(tasks) /\ tasks'[i] # tasks[i]

\* C23: whatever the interleaving of the handlers of one user's updates at
\* their awaits, no coroutine is suspended between loading a record and
\* saving it: a language selection writes the row as it is at that moment
\* with the language replaced, and a journal save writes the user's
\* context.user_data as it is at that moment.
C23_RecordUpdatesSerialized ==
    [][ /\ \A i \in 1..Len(tasks') : tasks'[i].held = <<>>
        /\ \A i \in 1..Len(tasks) :
               (Stepped(i) /\ saves' > 0 /\ tasks[i].update.type = "callback") =>
                   db' = save_user_data(db, tasks[i].update.user,
                             [load_user_data(db, tasks[i].update.user)
                                 EXCEPT !.language = tasks[i].update.data[3]])
        /\ \A i \in 1..Len(tasks) :
               (Stepped(i) /\ saves' > 0 /\ tasks[i].update.type = "message") =>
                   db' = save_user_data(db, tasks[i].update.user,
                                        user_data'[tasks[i].update.user])
      ]_vars

\* a journal entry was saved while a language selection of the same user
\* was suspended at its confirmation, its own save already made
C23_Witness ==
    \E i, j \in 1..Len(tasks) :
        /\ tasks[i].update.data = <<"set", "language", "en">>
        /\ tasks[i].pc = "confirmation"
        /\ tasks[j].update.type = "message"
        /\ tasks[j].update.user = tasks[i].update.user
        /\ tasks[j].pc = "confirmation"
        /\ event = tasks[j].update
        /\ saves = 1

\* C21: the language of every persisted record is uk, ru or en, and a user
\* with no record loads with language uk, an empty journal and an empty
\* self-assessment.
C21_LanguageEnum ==
    \A u \in Users \cup StoredUsers :
        /\ u \in DOMAIN db => db[u].language \in {"uk", "ru", "en"}
        /\ u \notin DOMAIN db =>
              load_user_data(db, u)
                  = [language |-> "uk", journal |-> <<>>, self_assessment |-> EmptyDict]

\* the fixed reply of each static-reply button, as chil_life_bot.py words it
StaticReplyOf(token) ==
    CASE token = <<"mood", "happy">>         -> "Radost napolnyaet serdtse!"
      [] token = <<"mood", "tired">>         -> "Otdykhay i vosstanavlivay sily."
      [] token = <<"contact", "support">>    ->
             "Esli u tebya voznikli voprosy, napishi nam zdes!"
      [] token = <<"cancel", "meditation">>  ->
             "Meditatsiya otmenena. Vyberite deystvie v menyu."

StaticTokens ==
    { <<"mood", "happy">>, <<"mood", "tired">>, <<"contact", "support">>,
      <<"cancel", "meditation">> }

\* C22: a press of a static-reply button (mood, support contact, meditation
\* cancellation) sends the one fixed message of that token and changes
\* neither context.user_data nor the store.
C22_StaticReplyFrame ==
    [][\A u \in Users :
        (event'.type = "callback" /\ event'.user = u /\ event'.data \in StaticTokens) =>
            /\ replies' = <<Reply(StaticReplyOf(event'.data), <<>>)>>
            /\ user_data' = user_data
            /\ db' = db
            /\ saves' = 0
            /\ gens' = 0
      ]_vars

\* a mood button was pressed while a test was in progress
C22_Witness ==
    \E u \in Users :
        /\ IsPress(event, u, <<"mood", "happy">>)
        /\ InQuiz(u)
        /\ user_data[u]["test_question"] = 3
        /\ Len(replies) = 1

\* C24: the start command is answered with the language-selection screen
\* and the menu command with the main menu in the user's stored language,
\* each as one message.
C24_CommandsRender ==
    \A u \in Users :
        /\ event = Command(u, "start") =>
              replies = <<Reply("Dobro pozhalovat", LanguageKeyboard)>>
        /\ event = Command(u, "menu") =>
              /\ Len(replies) = 1
              /\ replies[1].keyboard = MenuKeyboard(load_user_data(db, u).language)

\* C25: a text recorded as a journal entry for a user whose persisted
\* language is uk, ru or en leaves the persisted language and the persisted
\* self-assessment as they were.
C25_JournalSaveFrame ==
    [][\A u \in Users :
        ( /\ IsText(event', u)
          /\ saves' = 1
          /\ u \in DOMAIN db
          /\ db[u].language \in {"uk", "ru", "en"} ) =>
            /\ db'[u].language = db[u].language
            /\ db'[u].self_assessment = db[u].self_assessment
      ]_vars

\* the handlers registered for exactly this token
OwnHandlers(token) ==
    {i \in 1..Len(Handlers) : Handlers[i].kind = "callback" /\ Handlers[i].pattern = {token}}

\* C26: every button on a keyboard just sent whose token has a handler
\* registered under that very token is dispatched to that handler.
C26_OwnNameDispatch ==
    \A i \in 1..Len(replies) :
        \A j \in 1..Len(replies[i].keyboard) :
            LET token == replies[i].keyboard[j].callback_data
            IN  OwnHandlers(token) # {} =>
                    Resolve(Callback(event.user, token)) \in OwnHandlers(token)

\* the minutes of each duration button
MeditationMinutes(token) ==
    CASE token = <<"short", "meditation">>  -> 5
      [] token = <<"medium", "meditation">> -> 10
      [] token = <<"long", "meditation">>   -> 20

DurationTokens ==
    { <<"short", "meditation">>, <<"medium", "meditation">>, <<"long", "meditation">> }

\* C27: a press of short_meditation, medium_meditation or long_meditation
\* announces the start and then the completion of a meditation of 5, 10 or
\* 20 minutes, and the cancelled message is not sent for these tokens.
C27_MeditationDurations ==
    (event.type = "callback" /\ event.data \in DurationTokens) =>
        /\ Len(replies) = 2
        /\ replies[1].text = <<"Nachinaem meditatsiyu na", <<MeditationMinutes(event.data)>> >>
        /\ replies[2].text = <<"Meditatsiya zavershena", <<MeditationMinutes(event.data)>> >>

\* C28: after start_test and n answer presses, n < 30, the message sent is
\* question n + 1 of the list with its 3 answer buttons and no result; the
\* result is sent on the 30th press; the question index never exceeds 30,
\* and there are as many option lists as questions, of 3 options each.
C28_QuestionsInOrder ==
    \A u \in Users :
        (run # EmptyDict /\ event.user = u /\ (IsStartTest(event) \/ IsAnswer(event))) =>
            /\ InQuiz(u)
            /\ user_data[u]["test_question"] <= Len(questions)
            /\ run.n < NumQuestions =>
                  /\ Len(replies) = 1
                  /\ replies[1].text = <<questions[run.n + 1]>>
                  /\ Len(replies[1].keyboard) = 3
                  /\ \A k \in 1..3 : replies[1].keyboard[k].label = answers[run.n + 1][k]
                  /\ user_data[u]["test_question"] = run.n + 1
            /\ run.n = NumQuestions => ResultSent
            /\ Len(questions) = 30
            /\ Len(answers) = Len(questions)
            /\ \A i \in 1..Len(answers) : Len(answers[i]) = 3

\* the 29th answer was pressed and the last question of the list is asked
C28_Witness ==
    \E u \in Users :
        /\ run # EmptyDict
        /\ run.n = 29
        /\ IsAnswer(event)
        /\ replies[1].text = <<questions[30]>>
        /\ user_data[u]["test_question"] = 30

\* C29: the first result of a test answered with the three offered buttons
\* only carries a score from 30 to 90 and the high tier.
C29_OfferedButtonsGiveHigh ==
    (ResultSent /\ run # EmptyDict /\ run.n = NumQuestions /\ run.offered) =>
        /\ replies[1].text[2][1] \in 30..90
        /\ replies[1].text[2][2] = High

\* every question was answered with the first button: score 30, high tier
C29_Witness ==
    /\ ResultSent
    /\ run # EmptyDict
    /\ run.n = NumQuestions
    /\ run.offered
    /\ replies[1].text[2] = <<30, High>>

\* C30: a press of set_language_l persists l for the pressing user, leaves
\* that user's persisted journal and self-assessment and every other row as
\* they were, and the main menu sent with it carries the labels of l.
C30_SetLanguageFrame ==
    [][\A u \in Users : \A l \in {"uk", "ru", "en"} :
        IsPress(event', u, <<"set", "language", l>>) =>
            /\ u \in DOMAIN db'
            /\ db'[u].language = l
            /\ load_user_data(db', u).journal = load_user_data(db, u).journal
            /\ load_user_data(db', u).self_assessment
                   = load_user_data(db, u).self_assessment
            /\ \A v \in DOMAIN db : v # u => (v \in DOMAIN db' /\ db'[v] = db[v])
            /\ DOMAIN db' = DOMAIN db \cup {u}
            /\ Len(replies') = 2
            /\ \A i \in 1..Len(MenuTargets) :
                   /\ replies'[2].keyboard[i].label = MenuLabels[l][i]
                   /\ replies'[2].keyboard[i].callback_data = MenuTargets[i]
      ]_vars

\* English was selected by a user with one persisted journal entry, next to
\* the row of another user
C30_Witness ==
    \E u \in Users :
        /\ IsPress(event, u, <<"set", "language", "en">>)
        /\ u \in DOMAIN db
        /\ db[u].language = "en"
        /\ Len(load_user_data(db, u).journal) = 1
        /\ StoredUser \in DOMAIN db
        /\ db[StoredUser].language = "ru"

=============================================================================
